---------------------------- MODULE Spec2Model ----------------------------
(***************************************************************************)
(* A model of the deployment-plugin orchestration core of pipecd:          *)
(*   - the ECS platform client registry (platformprovider/ecs/ecs.go),     *)
(*   - the OpenTofu tool registry (plugin/opentofu/toolregistry),          *)
(*   - the OpenTofu deployment plugin's stage execution                    *)
(*     (plugin/opentofu/deployment).                                       *)
(* Each component has its own specification; a specification leaves the    *)
(* variables of the other components unchanged.                            *)
(***************************************************************************)
EXTENDS Integers, Sequences, FiniteSets, TLC

(***************************************************************************)
(* Bounds.                                                                 *)
(***************************************************************************)
\* Number of calls made to a registry, Client(name, cfg, logger) of the
\* client registry or OpenTofu(ctx, version) of the tool registry; each call
\* runs in its own goroutine.
MaxCalls == 3

Callers == 1..MaxCalls
\* Logical provider names passed to Client.
Names == {"a", "b"}
\* "no goroutine": the zero value of the fields that hold a caller.
NoCaller == 0
\* nil Client / nil error.
Nil == 0

\* Number of InstallTool calls of registry.go; each runs in its own goroutine.
MaxInstalls == 3

\* Number of ExecuteStage calls the plugin serves.
MaxStages == 3

\* Number of stage configs in a BuildPipelineSyncStages request.
MaxStageConfigs == 2

\* Number of resources in a state.
MaxResources == 2

Installers == 1..MaxInstalls
\* The versions a caller asks for ("" asks for the default).
Versions == {"", "1.6.0", "1.9.1"}
\* part_002, line 9.
defaultOpenTofuVersion == "1.9.1"
\* A nil error and "no path", where errors and paths are strings.
NoErr == "nil"
NoPath == ""

VARIABLES
  \* ---- registry (ecs.go) ----
  clients,    \* registry.clients: name -> Client (Nil: no entry)
  mu,         \* registry.mu: sync.RWMutex
  newGroup,   \* registry.newGroup: singleflight.Group, key -> in-flight call
  flight,     \* the singleflight calls ever created, by the caller that runs fn
  pc,         \* position of every Client call
  name,       \* argument `name` of every Client call
  ok,         \* local `ok` of every Client call (line 103)
  client,     \* local `client` of every Client call (lines 103, 116)
  joined,     \* the singleflight call a Client call got its result from
  ret,        \* what every Client call returned: [client, err]
  doneAtStart \* history: the calls that had already returned when a call began

clientVars ==
  <<clients, mu, newGroup, flight, pc, name, ok, client, joined, ret, doneAtStart>>

VARIABLES
  \* ---- Registry.OpenTofu (toolregistry, part_002) ----
  openTofu,     \* every OpenTofu call: argument, installer request and result, return
  \* ---- Registry.InstallTool (toolregistry/registry.go) ----
  tpc,          \* position of every InstallTool call
  tversion,     \* argument `version` of every InstallTool call
  files,        \* the binaries written so far, by the temporary directory holding them
  tret,         \* what every InstallTool call returned: [path, err]
  tdoneAtStart  \* history: the calls that had already returned when a call began

openTofuVars == <<openTofu>>
installVars == <<tpc, tversion, files, tret, tdoneAtStart>>
toolVars == <<openTofuVars, installVars>>

\* Stage execution of the OpenTofu plugin.
VARIABLES
  impl,         \* the variant of executeStage the plugin is built from
  st,           \* the stage call in progress, or the last one
  invocations,  \* number of ExecuteStage calls so far
  planFile,     \* the file tfplan-<ApplicationID>: the call that wrote it
  metadata,     \* the file metadata_<Deployment.ID>.json, per deployment
  planned,      \* per deployment: the plan file its last successful plan stage wrote
  crashed       \* deployments whose last successful plan stage was followed by a crash
stageVars == <<impl, st, invocations, planFile, metadata, planned, crashed>>

\* The planning functions of the OpenTofu plugin.
VARIABLES
  planning      \* the last call of a planning function: input and output
planningVars == <<planning>>

\* The live state plugin of OpenTofu.
VARIABLES
  ls            \* the GetDiff call in progress, or the last one
diffVars == <<ls>>

\* The stage execution engine.
VARIABLES
  deployment    \* the deployment the engine drives
engineVars == <<deployment>>


(***************************************************************************)
(* The platform client registry: registry.Client of ecs.go.                *)
(*                                                                         *)
(* A client instance is named by the call that constructed it (newClient   *)
(* returns a fresh pointer each time), an error by the singleflight call   *)
(* that produced it.                                                       *)
(***************************************************************************)

\* defaultRegistry: an empty map, an unlocked mutex, an empty group.
InitRegistry ==
  /\ clients = [n \in Names |-> Nil]
  /\ mu = [readers |-> {}, writer |-> NoCaller, pending |-> NoCaller]
  /\ newGroup = [n \in Names |-> NoCaller]
  /\ flight = [c \in Callers |-> "none"]
  /\ pc = [c \in Callers |-> "idle"]
  /\ name = [c \in Callers |-> ""]
  /\ ok = [c \in Callers |-> FALSE]
  /\ client = [c \in Callers |-> Nil]
  /\ joined = [c \in Callers |-> NoCaller]
  /\ ret = [c \in Callers |-> [client |-> Nil, err |-> Nil]]
  /\ doneAtStart = [c \in Callers |-> {}]

\* A goroutine calls r.Client(n, cfg, logger).  Calls are numbered in the
\* order in which they begin, and the first call names the provider "a"
\* (the names are interchangeable).
Client(c, n) ==
  /\ pc[c] = "idle"
  /\ \A d \in Callers : d < c => pc[d] # "idle"
  /\ c = 1 => n = "a"
  /\ pc' = [pc EXCEPT ![c] = "RLock"]
  /\ name' = [name EXCEPT ![c] = n]
  /\ doneAtStart' = [doneAtStart EXCEPT ![c] = {d \in Callers : pc[d] = "done"}]
  /\ UNCHANGED <<clients, mu, newGroup, flight, ok, client, joined, ret>>

\* r.mu.RLock(); client, ok := r.clients[name]
\* A reader waits while a writer holds the mutex or waits for it.  No write
\* can happen while the read lock is held, so the map is read here.
RLock(c) ==
  /\ pc[c] = "RLock"
  /\ mu.writer = NoCaller
  /\ mu.pending = NoCaller
  /\ mu' = [mu EXCEPT !.readers = @ \cup {c}]
  /\ client' = [client EXCEPT ![c] = clients[name[c]]]
  /\ ok' = [ok EXCEPT ![c] = clients[name[c]] # Nil]
  /\ pc' = [pc EXCEPT ![c] = "RUnlock"]
  /\ UNCHANGED <<clients, newGroup, flight, name, joined, ret, doneAtStart>>

RUnlock_HoldsLock(c) ==
  /\ pc[c] = "RUnlock"
  /\ IF ok[c]
       THEN /\ pc' = [pc EXCEPT ![c] = "done"]
            /\ ret' = [ret EXCEPT ![c] = [client |-> client[c], err |-> Nil]]
            /\ mu' = [mu EXCEPT !.readers = @ \ {c}]
       ELSE /\ pc' = [pc EXCEPT ![c] = "Do"]
            /\ UNCHANGED <<ret, mu>>
  /\ UNCHANGED <<clients, newGroup, flight, name, ok, client, joined, doneAtStart>>

\* r.mu.RUnlock(); if ok { return client, nil }
RUnlock(c) ==
  /\ pc[c] = "RUnlock"
  /\ mu' = [mu EXCEPT !.readers = @ \ {c}]
  /\ IF ok[c]
       THEN /\ pc' = [pc EXCEPT ![c] = "done"]
            /\ ret' = [ret EXCEPT ![c] = [client |-> client[c], err |-> Nil]]
       ELSE /\ pc' = [pc EXCEPT ![c] = "Do"]
            /\ UNCHANGED ret
  /\ UNCHANGED <<clients, newGroup, flight, name, ok, client, joined, doneAtStart>>

\* r.newGroup.Do(name, fn): a call for the key is in flight and the caller
\* waits for it, or the caller registers a new call and runs fn itself.
Do(c) ==
  /\ pc[c] = "Do"
  /\ IF newGroup[name[c]] # NoCaller
       THEN /\ joined' = [joined EXCEPT ![c] = newGroup[name[c]]]
            /\ pc' = [pc EXCEPT ![c] = "wait"]
            /\ UNCHANGED <<newGroup, flight>>
       ELSE /\ joined' = [joined EXCEPT ![c] = c]
            /\ newGroup' = [newGroup EXCEPT ![name[c]] = c]
            /\ flight' = [flight EXCEPT ![c] = "running"]
            /\ pc' = [pc EXCEPT ![c] = "newClient"]
  /\ UNCHANGED <<clients, mu, name, ok, client, ret, doneAtStart>>

DoReturned_CachesError(c, outcome) ==
  IF outcome = "err"
    THEN /\ ret' = [ret EXCEPT ![c] = [client |-> Nil, err |-> joined[c]]]
         /\ pc' = [pc EXCEPT ![c] = "done"]
         /\ clients' = [clients EXCEPT ![name[c]] = joined[c]]
         /\ UNCHANGED client
    ELSE /\ client' = [client EXCEPT ![c] = joined[c]]
         /\ pc' = [pc EXCEPT ![c] = "Lock"]
         /\ UNCHANGED <<ret, clients>>

\* Do has returned the result of the call joined[c]:
\* if err != nil { return nil, err }; client = c.(Client)
DoReturned(c, outcome) ==
  IF outcome = "err"
    THEN /\ ret' = [ret EXCEPT ![c] = [client |-> Nil, err |-> joined[c]]]
         /\ pc' = [pc EXCEPT ![c] = "done"]
         /\ UNCHANGED <<client, clients>>
    ELSE /\ client' = [client EXCEPT ![c] = joined[c]]
         /\ pc' = [pc EXCEPT ![c] = "Lock"]
         /\ UNCHANGED <<ret, clients>>

\* fn returns: newClient(...) gave a client (outcome "ok") or an error
\* ("err"); singleflight records the result, releases the waiters and
\* forgets the key; Do returns to the caller that ran fn.
newClient(c, outcome) ==
  /\ pc[c] = "newClient"
  /\ flight' = [flight EXCEPT ![c] = outcome]
  /\ newGroup' = [newGroup EXCEPT ![name[c]] = NoCaller]
  /\ DoReturned(c, outcome)
  /\ UNCHANGED <<mu, name, ok, joined, doneAtStart>>

\* A waiter of Do is released when the call it joined is done, and Do
\* returns that call's result to it.
DoWait(c) ==
  /\ pc[c] = "wait"
  /\ flight[joined[c]] \in {"ok", "err"}
  /\ DoReturned(c, flight[joined[c]])
  /\ UNCHANGED <<mu, newGroup, flight, name, ok, joined, doneAtStart>>

\* r.mu.Lock(), first half: the writer excludes other writers and announces
\* itself, which keeps new readers out.
Lock(c) ==
  /\ pc[c] = "Lock"
  /\ mu.writer = NoCaller
  /\ mu.pending = NoCaller
  /\ mu' = [mu EXCEPT !.pending = c]
  /\ pc' = [pc EXCEPT ![c] = "LockWait"]
  /\ UNCHANGED <<clients, newGroup, flight, name, ok, client, joined, ret, doneAtStart>>

\* r.mu.Lock(), second half: the writer holds the mutex once the readers left.
LockAcquire(c) ==
  /\ pc[c] = "LockWait"
  /\ mu.readers = {}
  /\ mu' = [mu EXCEPT !.pending = NoCaller, !.writer = c]
  /\ pc' = [pc EXCEPT ![c] = "write"]
  /\ UNCHANGED <<clients, newGroup, flight, name, ok, client, joined, ret, doneAtStart>>

\* r.clients[name] = client; r.mu.Unlock(); return client, nil
Unlock(c) ==
  /\ pc[c] = "write"
  /\ clients' = [clients EXCEPT ![name[c]] = client[c]]
  /\ mu' = [mu EXCEPT !.writer = NoCaller]
  /\ ret' = [ret EXCEPT ![c] = [client |-> client[c], err |-> Nil]]
  /\ pc' = [pc EXCEPT ![c] = "done"]
  /\ UNCHANGED <<newGroup, flight, name, ok, client, joined, doneAtStart>>

NextRegistry ==
  \E c \in Callers :
    \/ \E n \in Names : Client(c, n)
    \/ RLock(c)
    \/ RUnlock(c)
    \/ Do(c)
    \/ \E outcome \in {"ok", "err"} : newClient(c, outcome)
    \/ DoWait(c)
    \/ Lock(c)
    \/ LockAcquire(c)
    \/ Unlock(c)

\* Two calls ran concurrently: neither had returned when the other began.
Concurrent(c, d) ==
  /\ c # d
  /\ pc[c] # "idle" /\ pc[d] # "idle"
  /\ c \notin doneAtStart[d]
  /\ d \notin doneAtStart[c]

\* The number of times newClient was invoked for the provider name n.
NewClientCalls(n) ==
  Cardinality({c \in Callers : flight[c] # "none" /\ name[c] = n})

\* The next step of the Client call c.
StepOf(c) ==
  \/ RLock(c)
  \/ RUnlock(c)
  \/ Do(c)
  \/ \E outcome \in {"ok", "err"} : newClient(c, outcome)
  \/ DoWait(c)
  \/ Lock(c)
  \/ LockAcquire(c)
  \/ Unlock(c)

\* The Client call c is in progress and cannot take its next step.
Blocked(c) == pc[c] \notin {"idle", "done"} /\ ~ ENABLED StepOf(c)

(***************************************************************************)
(* The tool registry, wrapper side: Registry.OpenTofu (part_002).          *)
(***************************************************************************)

\* No call of OpenTofu, and no request to the installer.
NoRequest == [name |-> "-", version |-> "-"]
NoCall == [version |-> "-", request |-> NoRequest,
           result |-> [path |-> NoPath, err |-> NoErr],
           ret |-> [path |-> NoPath, err |-> NoErr]]

\* cmp.Or(a, b): the first argument that is not the zero value.
Or_First(a, b) == a
Or(a, b) == IF a # "" THEN a ELSE b

\* What an implementation of the client interface may answer to
\* InstallTool(ctx, name, version, script): a path, or an error.
InstallerResults(req) ==
  { [path |-> "/bin/true", err |-> NoErr],
    [path |-> NoPath, err |-> "install " \o req.name \o " " \o req.version] }

\* A goroutine calls r.OpenTofu(ctx, version):
\* return r.client.InstallTool(ctx, "tofu", cmp.Or(version, defaultOpenTofuVersion), installScript)
OpenTofu(c, version, result) ==
  /\ pc[c] = "idle"
  /\ \A d \in Callers : d < c => pc[d] # "idle"
  /\ LET req == [name |-> "tofu", version |-> Or(version, defaultOpenTofuVersion)]
     IN  /\ result \in InstallerResults(req)
         /\ openTofu' = [openTofu EXCEPT ![c] =
                           [version |-> version, request |-> req,
                            result |-> result, ret |-> result]]
  /\ pc' = [pc EXCEPT ![c] = "done"]
  /\ doneAtStart' = [doneAtStart EXCEPT ![c] = {d \in Callers : pc[d] = "done"}]
  /\ UNCHANGED <<clients, mu, newGroup, flight, name, ok, client, joined, ret>>

InitOpenTofu == openTofu = [c \in Callers |-> NoCall]

OpenTofuResults ==
  UNION {InstallerResults([name |-> "tofu", version |-> v]) :
           v \in (Versions \ {""}) \cup {defaultOpenTofuVersion}}

NextOpenTofu ==
  \E c \in Callers, version \in Versions, result \in OpenTofuResults :
    OpenTofu(c, version, result)

(***************************************************************************)
(* The tool registry, installing side: Registry.InstallTool (registry.go). *)
(*                                                                         *)
(* os.MkdirTemp gives every call a directory of its own, named here by the *)
(* call; the path returned is that directory's "tofu".                     *)
(***************************************************************************)

InitInstall ==
  /\ tpc = [t \in Installers |-> "idle"]
  /\ tversion = [t \in Installers |-> ""]
  /\ files = {}
  /\ tret = [t \in Installers |-> [path |-> Nil, err |-> NoErr]]
  /\ tdoneAtStart = [t \in Installers |-> {}]

\* A goroutine calls r.InstallTool(ctx, version).
InstallTool(t, version) ==
  /\ tpc[t] = "idle"
  /\ \A u \in Installers : u < t => tpc[u] # "idle"
  /\ tpc' = [tpc EXCEPT ![t] = "MkdirTemp"]
  /\ tversion' = [tversion EXCEPT ![t] = version]
  /\ tdoneAtStart' = [tdoneAtStart EXCEPT ![t] = {u \in Installers : tpc[u] = "done"}]
  /\ UNCHANGED <<files, tret>>

\* tmpDir, err := os.MkdirTemp("", "tofu-*")
MkdirTemp(t, outcome) ==
  /\ tpc[t] = "MkdirTemp"
  /\ IF outcome = "ok"
       THEN /\ tpc' = [tpc EXCEPT ![t] = "WriteFile"]
            /\ UNCHANGED tret
       ELSE /\ tpc' = [tpc EXCEPT ![t] = "done"]
            /\ tret' = [tret EXCEPT ![t] = [path |-> Nil, err |-> "failed to create temp dir"]]
  /\ UNCHANGED <<tversion, files, tdoneAtStart>>

\* os.WriteFile(toolPath, content, 0755); return &Tool{Path: toolPath}, nil
WriteFile(t, outcome) ==
  /\ tpc[t] = "WriteFile"
  /\ tpc' = [tpc EXCEPT ![t] = "done"]
  /\ IF outcome = "ok"
       THEN /\ files' = files \cup {t}
            /\ tret' = [tret EXCEPT ![t] = [path |-> t, err |-> NoErr]]
       ELSE /\ UNCHANGED files
            /\ tret' = [tret EXCEPT ![t] = [path |-> Nil, err |-> "failed to create mock binary"]]
  /\ UNCHANGED <<tversion, tdoneAtStart>>

NextInstall ==
  \E t \in Installers :
    \/ \E version \in Versions : InstallTool(t, version)
    \/ \E outcome \in {"ok", "err"} : MkdirTemp(t, outcome)
    \/ \E outcome \in {"ok", "err"} : WriteFile(t, outcome)

\* Two InstallTool calls ran concurrently.
ConcurrentInstalls(t, u) ==
  /\ t # u
  /\ tpc[t] # "idle" /\ tpc[u] # "idle"
  /\ t \notin tdoneAtStart[u]
  /\ u \notin tdoneAtStart[t]

\* The installation attempts made for a version: the calls that went on to
\* create a directory and a binary for it.
InstallAttempts(version) ==
  {t \in Installers : tversion[t] = version /\ tpc[t] \in {"WriteFile", "done"}}

\* The binaries installed for a version.
Installed(version) == {t \in files : tversion[t] = version}

(***************************************************************************)
(* Stage execution of the OpenTofu plugin: Plugin.ExecuteStage and          *)
(* Plugin.executeStage.  The repository holds two variants of               *)
(* executeStage, deployment/plan.go and the later one that keeps plan       *)
(* files in /tmp/tofu-plans; a plugin is built from one of them.  Stage     *)
(* calls are served one at a time.                                          *)
(***************************************************************************)
stageOpenTofuPlan == "OPEN_TOFU_PLAN"
stageOpenTofuApply == "OPEN_TOFU_APPLY"
\* Request.StageName: the two defined stages and a name that is not defined.
StageNames == {stageOpenTofuPlan, stageOpenTofuApply, "OPEN_TOFU_DESTROY"}
\* Request.Deployment.ID; both deployments have the same ApplicationID.
Deployments == {"d1", "d2"}
\* What os.Stat(configPath) finds: the file, no file, or another error.
ConfigFiles == {"exists", "missing", "denied"}
Impls == {"plan.go", "tofu-plans"}
StageStatusSuccess == "SUCCESS"
StageStatusFailure == "FAILURE"
\* No plan file; a plan file is identified by the stage call that wrote it.
NoArtifact == 0
\* Request.Deployment.ApplicationID of both deployments.
ApplicationID == "app"
planFileDir == "/tmp/tofu-plans"
\* fmt.Sprintf("tfplan-%s", ApplicationID), joined with planFileDir in the
\* variant that keeps its plan files there.
planFileName == "tfplan-" \o ApplicationID
PlanFilePath(i) ==
  IF i = "tofu-plans" THEN planFileDir \o "/" \o planFileName ELSE planFileName

\* No stage call in progress.
NoStage ==
  [pc |-> "idle", stageName |-> "-", deployment |-> "-", config |-> "-",
   cancelled |-> "-", running |-> "-", tool |-> 0, commands |-> <<>>,
   args |-> "", reported |-> NoErr,
   status |-> "-", err |-> NoErr, response |-> "-", applied |-> NoArtifact]

InitStage ==
  /\ impl \in Impls
  /\ st = NoStage
  /\ invocations = 0
  /\ planFile = NoArtifact
  /\ metadata = [d \in Deployments |-> "none"]
  /\ planned = [d \in Deployments |-> NoArtifact]
  /\ crashed = {}

\* Returned with ExecuteStage returning a response whatever err is.
Returned_AlwaysResponse(s, status, err) ==
  [s EXCEPT !.pc = "returned", !.status = status, !.err = err,
            !.running = "-",
            !.reported = IF s.reported = NoErr THEN err ELSE @,
            !.response = status]

\* executeStage returns (status, err) and ExecuteStage returns to its caller:
\* (nil, err) when err is not nil, else the response with the status.
\* reported is the first error a step of executeStage met.
Returned(s, status, err) ==
  [s EXCEPT !.pc = "returned", !.status = status, !.err = err,
            !.running = "-",
            !.reported = IF s.reported = NoErr THEN err ELSE @,
            !.response = IF err # NoErr THEN "nil" ELSE status]

\* ExecuteStage(ctx, _, _, input): json.Unmarshal of the stage config, then
\* executeStage(input, &spec).
ExecuteStage(stageName, d, config, decodes) ==
  /\ st.pc \in {"idle", "returned"}
  /\ invocations < MaxStages
  /\ invocations' = invocations + 1
  /\ LET s == [NoStage EXCEPT !.stageName = stageName, !.deployment = d,
                              !.config = config]
     IN  st' = IF decodes
                 THEN [s EXCEPT !.pc = IF impl = "tofu-plans" THEN "MkdirAll"
                                                              ELSE "OpenTofu"]
                 ELSE [s EXCEPT !.pc = "returned",
                                !.err = "failed to decode application spec",
                                !.response = "nil"]
  /\ UNCHANGED <<impl, planFile, metadata, planned, crashed>>

\* os.MkdirAll(planFileDir, 0755)
MkdirAll(outcome) ==
  /\ st.pc = "MkdirAll"
  /\ st' = IF outcome = "ok"
             THEN [st EXCEPT !.pc = "ReadDir"]
             ELSE Returned(st, StageStatusFailure,
                           "failed to create plan file directory")
  /\ UNCHANGED <<impl, invocations, planFile, metadata, planned, crashed>>

\* os.ReadDir(absWorkingDir)
ReadDir(outcome) ==
  /\ st.pc = "ReadDir"
  /\ st' = IF outcome = "ok"
             THEN [st EXCEPT !.pc = "Stat"]
             ELSE Returned(st, StageStatusFailure,
                           "failed to read working directory")
  /\ UNCHANGED <<impl, invocations, planFile, metadata, planned, crashed>>

\* os.Stat(configPath): plan.go looks only at os.IsNotExist(err).
StatConfig ==
  /\ st.pc = "Stat"
  /\ st' = IF st.config = "missing"
             THEN Returned(st, StageStatusFailure,
                           "configuration file does not exist")
             ELSE IF st.config = "denied" /\ impl = "tofu-plans"
               THEN Returned(st, StageStatusFailure,
                             "error checking configuration file")
               ELSE [st EXCEPT !.pc = IF impl = "tofu-plans" THEN "OpenTofu"
                                                             ELSE "init",
                               !.reported = IF st.config = "denied"
                                              THEN "permission denied"
                                              ELSE @]
  /\ UNCHANGED <<impl, invocations, planFile, metadata, planned, crashed>>

\* GetOpenTofu calling toolRegistry.OpenTofu a second time after a failure.
GetOpenTofu_Retries(version, result) ==
  /\ st.pc = "OpenTofu"
  /\ result \in InstallerResults([name |-> "tofu",
                                  version |-> Or(version, defaultOpenTofuVersion)])
  /\ st' = IF result.err = NoErr
             THEN [st EXCEPT !.tool = st.tool + 1,
                             !.pc = IF impl = "tofu-plans" THEN "init"
                                                           ELSE "Stat"]
             ELSE Returned([st EXCEPT !.tool = st.tool + 2],
                           StageStatusFailure, "failed to get OpenTofu binary")
  /\ UNCHANGED <<impl, invocations, planFile, metadata, planned, crashed>>

\* toolRegistry.OpenTofu(context.Background(), appCfg.Input.Version)
GetOpenTofu(version, result) ==
  /\ st.pc = "OpenTofu"
  /\ result \in InstallerResults([name |-> "tofu",
                                  version |-> Or(version, defaultOpenTofuVersion)])
  /\ st' = IF result.err = NoErr
             THEN [st EXCEPT !.tool = st.tool + 1,
                             !.pc = IF impl = "tofu-plans" THEN "init"
                                                           ELSE "Stat"]
             ELSE Returned([st EXCEPT !.tool = st.tool + 1],
                           StageStatusFailure, "failed to get OpenTofu binary")
  /\ UNCHANGED <<impl, invocations, planFile, metadata, planned, crashed>>

\* SwitchStageName returning SUCCESS with the error of an unknown stage.
SwitchStageName_UnknownSuccess ==
  /\ st.pc = "switch"
  /\ st' = IF st.stageName = stageOpenTofuPlan
             THEN [st EXCEPT !.pc = "run",
                             !.args = "-out=" \o PlanFilePath(impl)]
             ELSE IF st.stageName = stageOpenTofuApply
               THEN [st EXCEPT !.pc = IF impl = "tofu-plans"
                                        THEN "loadPlanFileMetadata"
                                        ELSE "StatPlan"]
               ELSE Returned(st, StageStatusSuccess, "unknown stage")
  /\ UNCHANGED <<impl, invocations, planFile, metadata, planned, crashed>>

SwitchStageName_DefaultPlan ==
  /\ st.pc = "switch"
  /\ st' = IF st.stageName = stageOpenTofuApply
             THEN [st EXCEPT !.pc = IF impl = "tofu-plans"
                                      THEN "loadPlanFileMetadata"
                                      ELSE "StatPlan"]
             ELSE [st EXCEPT !.pc = "run",
                             !.args = "-out=" \o PlanFilePath(impl)]
  /\ UNCHANGED <<impl, invocations, planFile, metadata, planned, crashed>>

\* The switch on Request.StageName.
SwitchStageName ==
  /\ st.pc = "switch"
  /\ st' = IF st.stageName = stageOpenTofuPlan
             THEN [st EXCEPT !.pc = "run",
                             !.args = "-out=" \o PlanFilePath(impl)]
             ELSE IF st.stageName = stageOpenTofuApply
               THEN [st EXCEPT !.pc = IF impl = "tofu-plans"
                                        THEN "loadPlanFileMetadata"
                                        ELSE "StatPlan"]
               ELSE Returned(st, StageStatusFailure, "unknown stage")
  /\ UNCHANGED <<impl, invocations, planFile, metadata, planned, crashed>>

\* loadPlanFileMetadata(Request.Deployment.ID) and the check of its result.
loadPlanFileMetadata ==
  /\ st.pc = "loadPlanFileMetadata"
  /\ st' = IF metadata[st.deployment] = "none"
             THEN Returned(st, StageStatusFailure,
                           "failed to load plan file metadata")
             ELSE IF metadata[st.deployment] = "empty"
               THEN Returned(st, StageStatusFailure,
                             "empty plan file path retrieved from metadata file")
               ELSE [st EXCEPT !.pc = "StatPlan"]
  /\ UNCHANGED <<impl, invocations, planFile, metadata, planned, crashed>>

StatPlanFile_NoCheck ==
  /\ st.pc = "StatPlan"
  /\ st' = [st EXCEPT !.pc = "run",
                      !.args = IF impl = "tofu-plans"
                                 THEN metadata[st.deployment]
                                 ELSE planFileName]
  /\ UNCHANGED <<impl, invocations, planFile, metadata, planned, crashed>>

\* os.Stat of the plan file, tfplan-<ApplicationID>: the path read from the
\* metadata file, or in plan.go the name built again from the ApplicationID.
\* The path becomes the argument of apply.
StatPlanFile ==
  /\ st.pc = "StatPlan"
  /\ st' = IF planFile = NoArtifact
             THEN Returned(st, StageStatusFailure, "plan file does not exist")
             ELSE [st EXCEPT !.pc = "run",
                             !.args = IF impl = "tofu-plans"
                                        THEN metadata[st.deployment]
                                        ELSE planFileName]
  /\ UNCHANGED <<impl, invocations, planFile, metadata, planned, crashed>>

\* Command without init: the command of the stage is run in its place.
Command_NoInit(s) ==
  IF s.stageName = stageOpenTofuPlan THEN "plan" ELSE "apply"

\* The command the call is about to run.
Command(s) ==
  IF s.pc = "init" THEN "init"
  ELSE IF s.stageName = stageOpenTofuPlan THEN "plan" ELSE "apply"

\* runTofuCommand: exec.CommandContext(context.Background(), tofuPath, ...)
\* starts the process.
runTofuCommand ==
  /\ st.pc \in {"init", "run"}
  /\ st' = [st EXCEPT !.pc = "CombinedOutput", !.running = Command(st),
                      !.commands = Append(st.commands, Command(st))]
  /\ UNCHANGED <<impl, invocations, planFile, metadata, planned, crashed>>

\* A successful plan stage of deployment d wrote plan file a.
PlanSucceeded(d, a) ==
  /\ planned' = [planned EXCEPT ![d] = a]
  /\ crashed' = crashed \ {d}

\* cmd.CombinedOutput() returns: the process has exited.  plan writes the
\* plan file, apply reads it.
CombinedOutput(outcome) ==
  /\ st.pc = "CombinedOutput"
  /\ IF outcome = "err"
       THEN /\ st' = Returned(st, StageStatusFailure,
                              IF st.running = "init"
                                THEN "failed to execute OpenTofu init"
                                ELSE "failed to execute stage")
            /\ UNCHANGED <<planFile, planned, crashed>>
       ELSE IF st.running = "init"
         THEN /\ st' = [st EXCEPT !.pc = "switch", !.running = "-"]
              /\ UNCHANGED <<planFile, planned, crashed>>
         ELSE IF st.running = "plan"
           THEN /\ planFile' = invocations
                /\ IF impl = "tofu-plans"
                     THEN /\ st' = [st EXCEPT !.pc = "savePlanFileMetadata",
                                              !.running = "-"]
                          /\ UNCHANGED <<planned, crashed>>
                     ELSE /\ st' = Returned(st, StageStatusSuccess, NoErr)
                          /\ PlanSucceeded(st.deployment, invocations)
           ELSE /\ st' = Returned([st EXCEPT !.applied = planFile],
                                  StageStatusSuccess, NoErr)
                /\ UNCHANGED <<planFile, planned, crashed>>
  /\ UNCHANGED <<impl, invocations, metadata>>

\* savePlanFileMetadata(Request.Deployment.ID, planFile)
savePlanFileMetadata(outcome) ==
  /\ st.pc = "savePlanFileMetadata"
  /\ IF outcome = "ok"
       THEN /\ metadata' = [metadata EXCEPT ![st.deployment] = PlanFilePath(impl)]
            /\ st' = Returned(st, StageStatusSuccess, NoErr)
            /\ PlanSucceeded(st.deployment, planFile)
       ELSE /\ st' = Returned(st, StageStatusFailure,
                              "failed to save plan file metadata")
            /\ UNCHANGED <<metadata, planned, crashed>>
  /\ UNCHANGED <<impl, invocations, planFile>>

\* The caller cancels the ctx it gave to ExecuteStage, or its deadline passes.
CancelContext ==
  /\ st.pc \notin {"idle", "returned"}
  /\ st.cancelled = "-"
  /\ st' = [st EXCEPT !.cancelled = IF st.running # "-" THEN st.running
                                                          ELSE "no command"]
  /\ UNCHANGED <<impl, invocations, planFile, metadata, planned, crashed>>

\* The plugin process dies and is started again: the stage call in progress
\* is lost, the files stay.  os.WriteFile truncates the file before it
\* writes, so a crash inside savePlanFileMetadata may leave an empty file.
Crash ==
  /\ st' = NoStage
  /\ crashed' = {d \in Deployments : planned[d] # NoArtifact}
  /\ \/ UNCHANGED metadata
     \/ /\ st.pc = "savePlanFileMetadata"
        /\ metadata' = [metadata EXCEPT ![st.deployment] = "empty"]
  /\ UNCHANGED <<impl, invocations, planFile, planned>>

NextStage ==
  \/ \E stageName \in StageNames, d \in Deployments, config \in ConfigFiles,
        decodes \in BOOLEAN :
       ExecuteStage(stageName, d, config, decodes)
  \/ \E outcome \in {"ok", "err"} : MkdirAll(outcome)
  \/ \E outcome \in {"ok", "err"} : ReadDir(outcome)
  \/ StatConfig
  \/ \E version \in Versions, result \in OpenTofuResults :
       GetOpenTofu(version, result)
  \/ SwitchStageName
  \/ loadPlanFileMetadata
  \/ StatPlanFile
  \/ runTofuCommand
  \/ \E outcome \in {"ok", "err"} : CombinedOutput(outcome)
  \/ \E outcome \in {"ok", "err"} : savePlanFileMetadata(outcome)
  \/ CancelContext
  \/ Crash

(***************************************************************************)
(* The planning functions of the OpenTofu deployment plugin:                *)
(* determineVersions, determineStrategy, buildQuickSyncStages,              *)
(* buildPipelineSyncStages and fetchDefinedStages.  They are the same in    *)
(* both variants of the package; Plugin's methods pass their input on.      *)
(***************************************************************************)
\* DeploymentSource: CommitHash and ApplicationDirectory.
CommitHashes == {"", "abc123"}
ApplicationDirectories == {"/app", "/infra"}
DeploymentSources ==
  [CommitHash : CommitHashes, ApplicationDirectory : ApplicationDirectories]

\* sdk.StageConfig of a request: Index and Name.
StageConfigNames == {"S1", "S2"}
StageConfigIndexes == {0, 1, 2}
StageConfigs == [Index : StageConfigIndexes, Name : StageConfigNames]

\* The lists of at most n stage configs.
RECURSIVE StageLists(_)
StageLists(n) ==
  IF n = 0 THEN {<<>>}
  ELSE LET shorter == StageLists(n - 1)
       IN  shorter \cup {Append(l, s) : l \in shorter, s \in StageConfigs}

\* sdk.BuildPipelineSyncStagesRequest: Stages and Rollback.
PipelineRequests == [Stages : StageLists(MaxStageConfigs), Rollback : BOOLEAN]

ManualOperationNone == "MANUAL_OPERATION_NONE"
SyncStrategyQuickSync == "QUICK_SYNC"
SyncStrategyPipelineSync == "PIPELINE_SYNC"

determineVersions_NoHash(source) ==
  [Versions |-> << [Kind |-> "ArtifactKindTerraformModule",
                    Version |-> "v1",
                    Name |-> source.ApplicationDirectory,
                    URL |-> source.ApplicationDirectory] >>,
   err |-> NoErr]

\* determineVersions(input): "v1" or "v1-<CommitHash>", name and URL the
\* application directory.
determineVersions(source) ==
  LET version == IF source.CommitHash # ""
                   THEN "v1-" \o source.CommitHash
                   ELSE "v1"
  IN  [Versions |-> << [Kind |-> "ArtifactKindTerraformModule",
                        Version |-> version,
                        Name |-> source.ApplicationDirectory,
                        URL |-> source.ApplicationDirectory] >>,
       err |-> NoErr]

determineStrategy_Pipeline ==
  [Strategy |-> SyncStrategyPipelineSync,
   Summary |-> "Using PIPELINE_SYNC strategy for OpenTofu deployment",
   err |-> NoErr]

\* determineStrategy()
determineStrategy ==
  [Strategy |-> SyncStrategyQuickSync,
   Summary |-> "Using QUICK_SYNC strategy for OpenTofu deployment",
   err |-> NoErr]

buildQuickSyncStages_ApplyFirst ==
  [Stages |-> << [Name |-> stageOpenTofuApply,
                  Description |-> "Apply OpenTofu changes",
                  Rollback |-> FALSE,
                  Metadata |-> {<<"command", "apply">>},
                  AvailableOperation |-> ManualOperationNone],
                 [Name |-> stageOpenTofuPlan,
                  Description |-> "Plan OpenTofu changes",
                  Rollback |-> FALSE,
                  Metadata |-> {<<"command", "plan">>},
                  AvailableOperation |-> ManualOperationNone] >>,
   err |-> NoErr]

\* buildQuickSyncStages(); a map[string]string is the set of its pairs.
buildQuickSyncStages ==
  [Stages |-> << [Name |-> stageOpenTofuPlan,
                  Description |-> "Plan OpenTofu changes",
                  Rollback |-> FALSE,
                  Metadata |-> {<<"command", "plan">>},
                  AvailableOperation |-> ManualOperationNone],
                 [Name |-> stageOpenTofuApply,
                  Description |-> "Apply OpenTofu changes",
                  Rollback |-> FALSE,
                  Metadata |-> {<<"command", "apply">>},
                  AvailableOperation |-> ManualOperationNone] >>,
   err |-> NoErr]

\* The loop of buildPipelineSyncStages: one PipelineStage appended for each
\* stage config of the request, in order.
RECURSIVE AppendStages(_, _)
AppendStages(stages, rest) ==
  IF rest = <<>> THEN stages
  ELSE AppendStages(Append(stages,
                           [Index |-> Head(rest).Index,
                            Name |-> Head(rest).Name,
                            Rollback |-> FALSE,
                            Metadata |-> {},
                            AvailableOperation |-> ManualOperationNone]),
                    Tail(rest))

buildPipelineSyncStages_Reindexed(request) ==
  [Stages |-> [i \in 1..Len(request.Stages) |->
                 [Index |-> i - 1,
                  Name |-> request.Stages[i].Name,
                  Rollback |-> FALSE,
                  Metadata |-> {},
                  AvailableOperation |-> ManualOperationNone]],
   err |-> NoErr]

\* buildPipelineSyncStages(input); input.Request.Rollback is not read.
buildPipelineSyncStages(request) ==
  [Stages |-> AppendStages(<<>>, request.Stages), err |-> NoErr]

\* fetchDefinedStages()
fetchDefinedStages == <<stageOpenTofuPlan, stageOpenTofuApply>>

\* No planning call yet.
NoPlanning == [fn |-> "-", input |-> "-", output |-> "-"]

InitPlanning == planning = NoPlanning

\* Plugin.DetermineVersions(ctx, _, input)
DetermineVersions(source) ==
  planning' = [fn |-> "determineVersions", input |-> source,
               output |-> determineVersions(source)]

\* Plugin.DetermineStrategy(ctx, _, input): the input is not passed on.
DetermineStrategy(source) ==
  planning' = [fn |-> "determineStrategy", input |-> source,
               output |-> determineStrategy]

\* Plugin.BuildQuickSyncStages(ctx, _, _)
BuildQuickSyncStages ==
  planning' = [fn |-> "buildQuickSyncStages", input |-> "-",
               output |-> buildQuickSyncStages]

\* Plugin.BuildPipelineSyncStages(ctx, _, input)
BuildPipelineSyncStages(request) ==
  planning' = [fn |-> "buildPipelineSyncStages", input |-> request,
               output |-> buildPipelineSyncStages(request)]

\* Plugin.FetchDefinedStages()
FetchDefinedStages ==
  planning' = [fn |-> "fetchDefinedStages", input |-> "-",
               output |-> fetchDefinedStages]

NextPlanning ==
  \/ \E source \in DeploymentSources : DetermineVersions(source)
  \/ \E source \in DeploymentSources : DetermineStrategy(source)
  \/ BuildQuickSyncStages
  \/ \E request \in PipelineRequests : BuildPipelineSyncStages(request)
  \/ FetchDefinedStages

(***************************************************************************)
(* The live state plugin of OpenTofu: Plugin.GetDiff, which reads the       *)
(* current state (tofu show) and the desired state (tofu plan) and          *)
(* compares their resources.  Calls are served one at a time.               *)
(***************************************************************************)
\* Resource.Address and Resource.Values; a map is the set of its pairs.
Addresses == {"r1", "r2", "r3"}

\* The "values" object of a resource as the tofu command prints it: its
\* key/value pairs in the order of the text.
JsonObjects ==
  { << <<"size", "1">>, <<"zone", "a">> >>,
    << <<"zone", "a">>, <<"size", "1">> >>,
    << <<"size", "2">>, <<"zone", "a">> >> }

\* An unmarshalling that keeps the position of every pair.
UnmarshalObject_Ordered(object) == {<<i, object[i]>> : i \in DOMAIN object}

\* json.Unmarshal of an object into map[string]interface{}.
UnmarshalObject(object) == {object[i] : i \in DOMAIN object}

AttributeMaps == {UnmarshalObject(object) : object \in JsonObjects}

\* The resources a tofu command prints.
Resources == [Address : Addresses, Values : JsonObjects]

\* The lists of at most n resources: State.Values.RootModule.Resources of
\* the output of a tofu command, which lists every address once.
RECURSIVE ResourceLists(_)
ResourceLists(n) ==
  IF n = 0 THEN {<<>>}
  ELSE LET shorter == ResourceLists(n - 1)
       IN  shorter \cup
             UNION {{Append(l, r) :
                       r \in {x \in Resources :
                                \A i \in DOMAIN l : l[i].Address # x.Address}} :
                    l \in shorter}

\* json.Unmarshal of the resources of an output into []Resource.
Unmarshal(resources) ==
  [i \in DOMAIN resources |->
     [Address |-> resources[i].Address,
      Values |-> UnmarshalObject(resources[i].Values)]]

Snapshots == ResourceLists(MaxResources)

\* What a tofu command prints: JSON of a state, or something that
\* json.Unmarshal into State rejects.
Outputs ==
  [wellFormed : {TRUE}, resources : Snapshots]
    \cup {[wellFormed |-> FALSE, resources |-> <<>>]}

\* model.Application as validateConfig reads it: GitPath.Path, and whether
\* the directory workingDir/app.Id/GitPath.Path exists.
Applications == [gitPath : {"", "infra"}, dirExists : BOOLEAN]

NoResource == [Address |-> "", Values |-> {}]

\* The entries of the change list.
CreateEntry(r) ==
  [address |-> r.Address, change |-> "create", resource |-> r,
   current |-> {}, desired |-> {}]
\* An update entry with the two attribute maps exchanged.
UpdateEntry_Swapped(c, d) ==
  [address |-> d.Address, change |-> "update", resource |-> NoResource,
   current |-> d.Values, desired |-> c.Values]

UpdateEntry(c, d) ==
  [address |-> d.Address, change |-> "update", resource |-> NoResource,
   current |-> c.Values, desired |-> d.Values]
DeleteEntry(r) ==
  [address |-> r.Address, change |-> "delete", resource |-> r,
   current |-> {}, desired |-> {}]

\* The inner loops: the first resource of the list with the address, or
\* NoResource (currentRes == nil, exists == false).
RECURSIVE Find(_, _)
Find(list, address) ==
  IF list = <<>> THEN NoResource
  ELSE IF Head(list).Address = address THEN Head(list)
  ELSE Find(Tail(list), address)

\* reflect.DeepEqual of two attribute maps.
DeepEqual(a, b) == a = b

\* A loop over the desired resources that does not compare the attribute
\* maps of a resource it found.
RECURSIVE CompareDesired_AlwaysUpdate(_, _, _)
CompareDesired_AlwaysUpdate(changes, current, rest) ==
  IF rest = <<>> THEN changes
  ELSE LET desiredRes == Head(rest)
           currentRes == Find(current, desiredRes.Address)
       IN  CompareDesired_AlwaysUpdate(
             Append(changes,
                    IF currentRes = NoResource
                      THEN CreateEntry(desiredRes)
                      ELSE UpdateEntry(currentRes, desiredRes)),
             current, Tail(rest))

\* The loop over the desired resources: create and update entries.
RECURSIVE CompareDesired(_, _, _)
CompareDesired(changes, current, rest) ==
  IF rest = <<>> THEN changes
  ELSE LET desiredRes == Head(rest)
           currentRes == Find(current, desiredRes.Address)
       IN  IF currentRes = NoResource
             THEN CompareDesired(Append(changes, CreateEntry(desiredRes)),
                                 current, Tail(rest))
             ELSE IF ~DeepEqual(currentRes.Values, desiredRes.Values)
               THEN CompareDesired(Append(changes,
                                          UpdateEntry(currentRes, desiredRes)),
                                   current, Tail(rest))
               ELSE CompareDesired(changes, current, Tail(rest))

\* A loop over the current resources that puts every delete entry at the
\* front of the list.
RECURSIVE CompareCurrent_Prepends(_, _, _)
CompareCurrent_Prepends(changes, rest, desired) ==
  IF rest = <<>> THEN changes
  ELSE LET currentRes == Head(rest)
       IN  IF Find(desired, currentRes.Address) = NoResource
             THEN CompareCurrent_Prepends(<<DeleteEntry(currentRes)>> \o changes,
                                          Tail(rest), desired)
             ELSE CompareCurrent_Prepends(changes, Tail(rest), desired)

\* A loop over the current resources that does not look the resource up in
\* the desired state: every current resource gets a delete entry.
RECURSIVE CompareCurrent_DeletesAll(_, _, _)
CompareCurrent_DeletesAll(changes, rest, desired) ==
  IF rest = <<>> THEN changes
  ELSE CompareCurrent_DeletesAll(Append(changes, DeleteEntry(Head(rest))),
                                 Tail(rest), desired)

\* The loop over the current resources: delete entries.
RECURSIVE CompareCurrent(_, _, _)
CompareCurrent(changes, rest, desired) ==
  IF rest = <<>> THEN changes
  ELSE LET currentRes == Head(rest)
       IN  IF Find(desired, currentRes.Address) = NoResource
             THEN CompareCurrent(Append(changes, DeleteEntry(currentRes)),
                                 Tail(rest), desired)
             ELSE CompareCurrent(changes, Tail(rest), desired)

\* A comparison that leaves out the loop over the current resources.
Changes_NoDeletes(current, desired) ==
  CompareDesired(<<>>, current, desired)

\* diff["changes"] of GetDiff for the two parsed states.
Changes(current, desired) ==
  CompareCurrent(CompareDesired(<<>>, current, desired), current, desired)

\* No call of the livestate plugin in progress.  fn is the method called,
\* steps the steps it has executed and outcomes how each of them ended.
\* state is the State of a GetLiveStateResult or GetDesiredStateResult, the
\* output of the command as it was printed.  response is the GetDiffResult
\* returned: its one field Diff, the JSON of the map diff with its one key
\* "changes".
NoDiff ==
  [pc |-> "idle", fn |-> "-", app |-> [gitPath |-> "", dirExists |-> FALSE],
   steps |-> <<>>, outcomes |-> <<>>, state |-> <<>>,
   currentState |-> <<>>, desiredState |-> <<>>,
   current |-> <<>>, desired |-> <<>>,
   result |-> FALSE, changes |-> <<>>,
   response |-> [Diff |-> [changes |-> <<>>]], err |-> NoErr]

InitDiff == ls = NoDiff

\* The method returns (nil, err) because the step failed.
DiffFailed(l, step, err) ==
  [l EXCEPT !.pc = "returned", !.steps = Append(l.steps, step),
            !.outcomes = Append(l.outcomes, "err"), !.err = err]

\* The method returns (nil, err) because p.validateState rejected the output
\* of a command that ran successfully.
DiffInvalid(l, step, err) ==
  [l EXCEPT !.pc = "returned", !.steps = Append(l.steps, step),
            !.outcomes = Append(l.outcomes, "invalid"), !.err = err]

\* The method goes on after a step.
DiffStep(l, step, next) ==
  [l EXCEPT !.pc = next, !.steps = Append(l.steps, step),
            !.outcomes = Append(l.outcomes, "ok")]

\* GetLiveState(ctx, app) is called.
GetLiveState(app) ==
  /\ ls.pc \in {"idle", "returned"}
  /\ ls' = [NoDiff EXCEPT !.pc = "validateConfig", !.fn = "GetLiveState",
                          !.app = app]

\* GetDesiredState(ctx, app) is called.
GetDesiredState(app) ==
  /\ ls.pc \in {"idle", "returned"}
  /\ ls' = [NoDiff EXCEPT !.pc = "validateConfig", !.fn = "GetDesiredState",
                          !.app = app]

\* GetDiff(ctx, app) is called.
GetDiff(app) ==
  /\ ls.pc \in {"idle", "returned"}
  /\ ls' = [NoDiff EXCEPT !.pc = "validateConfig", !.fn = "GetDiff",
                          !.app = app]

\* validateConfig without the os.Stat of the configuration directory.
validateConfig_NoStat ==
  /\ ls.pc = "validateConfig"
  /\ ls' = IF ls.app.gitPath = ""
             THEN DiffFailed(ls, "validateConfig", "git path is required")
             ELSE DiffStep(ls, "validateConfig", "InstallTool")

\* p.validateConfig(app)
validateConfig ==
  /\ ls.pc = "validateConfig"
  /\ ls' = IF ls.app.gitPath = ""
             THEN DiffFailed(ls, "validateConfig", "git path is required")
             ELSE IF ~ls.app.dirExists
               THEN DiffFailed(ls, "validateConfig",
                               "configuration directory does not exist")
               ELSE DiffStep(ls, "validateConfig", "InstallTool")

\* p.registry.InstallTool(ctx, p.version)
registryInstallTool(outcome) ==
  /\ ls.pc = "InstallTool"
  /\ ls' = IF outcome = "ok"
             THEN DiffStep(ls, "InstallTool", "MkdirAll")
             ELSE DiffFailed(ls, "InstallTool", "failed to get OpenTofu binary")

\* os.MkdirAll(workDir, 0755)
MkdirAllWorkDir(outcome) ==
  /\ ls.pc = "MkdirAll"
  /\ ls' = IF outcome = "ok"
             THEN DiffStep(ls, "MkdirAll", "init")
             ELSE DiffFailed(ls, "MkdirAll", "failed to create working directory")

\* initCmd.Run(); GetDesiredState goes on with plan, the others with show.
initCmdRun(outcome) ==
  /\ ls.pc = "init"
  /\ ls' = IF outcome = "ok"
             THEN DiffStep(ls, "init",
                           IF ls.fn = "GetDesiredState" THEN "plan" ELSE "show")
             ELSE DiffFailed(ls, "init", "failed to initialize OpenTofu")

\* stateCmdOutput reporting an output that p.validateState rejected with the
\* message of a command that failed.
stateCmdOutput_FailedToGet(outcome, output) ==
  /\ ls.pc = "show"
  /\ ls' = IF ls.fn = "GetLiveState"
             THEN IF outcome = "err"
               THEN DiffFailed(ls, "show", "failed to get OpenTofu state")
               ELSE IF ~output.wellFormed
                 THEN DiffInvalid(ls, "show", "failed to get OpenTofu state")
                 ELSE [DiffStep(ls, "show", "returned")
                         EXCEPT !.result = TRUE, !.state = output.resources]
             ELSE IF outcome = "err"
               THEN DiffFailed(ls, "show", "failed to get current state")
               ELSE IF ~output.wellFormed
                 THEN DiffInvalid(ls, "show", "failed to get current state")
                 ELSE [DiffStep(ls, "show", "plan")
                         EXCEPT !.currentState = output.resources]

\* showCmd.Output() of GetLiveState, stateCmd.Output() of GetDiff, and
\* p.validateState of the output.  GetLiveState returns the validation error
\* as it is and, on success, the output as the State of its result; GetDiff
\* wraps the validation error and goes on with plan.
stateCmdOutput(outcome, output) ==
  /\ ls.pc = "show"
  /\ ls' = IF ls.fn = "GetLiveState"
             THEN IF outcome = "err"
               THEN DiffFailed(ls, "show", "failed to get OpenTofu state")
               ELSE IF ~output.wellFormed
                 THEN DiffInvalid(ls, "show", "invalid state format")
                 ELSE [DiffStep(ls, "show", "returned")
                         EXCEPT !.result = TRUE, !.state = output.resources]
             ELSE IF outcome = "err"
               THEN DiffFailed(ls, "show", "failed to get current state")
               ELSE IF ~output.wellFormed
                 THEN DiffInvalid(ls, "show",
                                  "invalid current state: " \o
                                    "invalid state format")
                 ELSE [DiffStep(ls, "show", "plan")
                         EXCEPT !.currentState = output.resources]

\* planCmd.Output() and p.validateState of the output.  GetDesiredState
\* returns the validation error as it is and, on success, the output as the
\* State of its result.  GetDiff wraps the validation error and, on success,
\* goes on with json.Unmarshal of both outputs, the comparison of the two
\* states and the return of the result.
planCmdOutput(outcome, output) ==
  /\ ls.pc = "plan"
  /\ ls' = IF ls.fn = "GetDesiredState"
             THEN IF outcome = "err"
               THEN DiffFailed(ls, "plan", "failed to get OpenTofu plan")
               ELSE IF ~output.wellFormed
                 THEN DiffInvalid(ls, "plan", "invalid state format")
                 ELSE [DiffStep(ls, "plan", "returned")
                         EXCEPT !.result = TRUE, !.state = output.resources]
             ELSE IF outcome = "err"
               THEN DiffFailed(ls, "plan", "failed to get desired state")
               ELSE IF ~output.wellFormed
                 THEN DiffInvalid(ls, "plan",
                                  "invalid desired state: " \o
                                    "invalid state format")
                 ELSE [DiffStep(ls, "plan", "returned")
                         EXCEPT !.desiredState = output.resources,
                                !.current = Unmarshal(ls.currentState),
                                !.desired = Unmarshal(output.resources),
                                !.result = TRUE,
                                !.changes = Changes(Unmarshal(ls.currentState),
                                                    Unmarshal(output.resources)),
                                !.response =
                                  [Diff |->
                                     [changes |->
                                        Changes(Unmarshal(ls.currentState),
                                                Unmarshal(output.resources))]]]

NextDiff ==
  \/ \E app \in Applications : GetLiveState(app)
  \/ \E app \in Applications : GetDesiredState(app)
  \/ \E app \in Applications : GetDiff(app)
  \/ validateConfig
  \/ \E outcome \in {"ok", "err"} : registryInstallTool(outcome)
  \/ \E outcome \in {"ok", "err"} : MkdirAllWorkDir(outcome)
  \/ \E outcome \in {"ok", "err"} : initCmdRun(outcome)
  \/ \E outcome \in {"ok", "err"}, output \in Outputs :
       stateCmdOutput(outcome, output)
  \/ \E outcome \in {"ok", "err"}, output \in Outputs :
       planCmdOutput(outcome, output)

(***************************************************************************)
(* The stage execution engine, for one deployment: it takes the pipeline   *)
(* the plugin builds, runs its stages one at a time in index order through *)
(* Plugin.ExecuteStage and records their statuses.  The engine is not      *)
(* among the sources; it follows sections 3, 4.5 and 5 of the              *)
(* specification.                                                          *)
(***************************************************************************)
\* The stages of the two strategies as the engine keeps them: quick sync
\* stages get their index from their place in the list.
QuickSyncPipeline ==
  [i \in DOMAIN buildQuickSyncStages.Stages |->
     [Index |-> i - 1,
      Name |-> buildQuickSyncStages.Stages[i].Name,
      Rollback |-> buildQuickSyncStages.Stages[i].Rollback]]

PipelineSyncPipeline(request) ==
  [i \in DOMAIN buildPipelineSyncStages(request).Stages |->
     [Index |-> buildPipelineSyncStages(request).Stages[i].Index,
      Name |-> buildPipelineSyncStages(request).Stages[i].Name,
      Rollback |-> buildPipelineSyncStages(request).Stages[i].Rollback]]

\* No deployment was submitted.  failed is the place in stages of the
\* forward stage that failed, or 0.
NoDeployment ==
  [status |-> "NONE", strategy |-> "-", rollback |-> FALSE, stages |-> <<>>,
   statuses |-> <<>>, started |-> <<>>, reinvoked |-> {}, failed |-> 0]

InitEngine == deployment = NoDeployment

\* The stages the engine may start next: before a failure the pending
\* forward stage of the least index, after a failure the pending rollback
\* stage of the least index (the place in the list decides between equal
\* indexes).
NextToRun(dp) ==
  LET wanted == {p \in DOMAIN dp.stages :
                   /\ dp.statuses[p] = "PENDING"
                   /\ dp.stages[p].Rollback = (dp.failed # 0)}
      Before(p, q) ==
        \/ dp.stages[p].Index < dp.stages[q].Index
        \/ dp.stages[p].Index = dp.stages[q].Index /\ p < q
  IN  {p \in wanted : \A q \in wanted \ {p} : Before(p, q)}

\* The control plane assigns a deployment with the pipeline of the plugin.
SubmitDeployment(stages, strategy, rollback) ==
  /\ deployment.status = "NONE"
  /\ deployment' =
       [NoDeployment EXCEPT
          !.status = "PENDING", !.strategy = strategy, !.rollback = rollback,
          !.stages = stages,
          !.statuses = [i \in DOMAIN stages |-> "PENDING"]]

\* A worker takes the deployment.
StartDeployment ==
  /\ deployment.status = "PENDING"
  /\ deployment' = [deployment EXCEPT !.status = "RUNNING"]

\* The engine calls Plugin.ExecuteStage for the next stage.
StartStage(p) ==
  /\ deployment.status = "RUNNING"
  /\ \A q \in DOMAIN deployment.stages : deployment.statuses[q] # "RUNNING"
  /\ p \in NextToRun(deployment)
  /\ deployment' = [deployment EXCEPT !.statuses[p] = "RUNNING",
                                      !.started = Append(@, p)]

\* The engine calls Plugin.ExecuteStage once more for a stage whose call
\* was interrupted before a status was recorded.
ReinvokeStage(p) ==
  /\ deployment.status = "RUNNING"
  /\ p \in DOMAIN deployment.stages
  /\ deployment.statuses[p] = "RUNNING"
  /\ p \notin deployment.reinvoked
  /\ deployment' = [deployment EXCEPT !.reinvoked = @ \cup {p}]

\* A finish that puts a failed forward stage back to PENDING.
FinishStage_Retries(p, status) ==
  /\ deployment.status = "RUNNING"
  /\ p \in DOMAIN deployment.stages
  /\ deployment.statuses[p] \in {"RUNNING", "FAILURE"}
  /\ deployment' =
       [deployment EXCEPT
          !.statuses[p] = IF deployment.statuses[p] = "FAILURE"
                            THEN "PENDING" ELSE status,
          !.failed = 0]

\* Plugin.ExecuteStage returned: a response with SUCCESS, or an error, for
\* which the engine records FAILURE.
FinishStage(p, status) ==
  /\ deployment.status = "RUNNING"
  /\ p \in DOMAIN deployment.stages
  /\ deployment.statuses[p] = "RUNNING"
  /\ deployment' =
       [deployment EXCEPT
          !.statuses[p] = status,
          !.failed = IF /\ status = StageStatusFailure
                        /\ ~deployment.stages[p].Rollback
                        /\ deployment.failed = 0
                       THEN p ELSE @]

\* Nothing is left to run: the deployment gets its terminal status.
CompleteDeployment ==
  /\ deployment.status = "RUNNING"
  /\ \A q \in DOMAIN deployment.stages : deployment.statuses[q] # "RUNNING"
  /\ NextToRun(deployment) = {}
  /\ deployment' =
       [deployment EXCEPT
          !.status = IF deployment.failed = 0
                       THEN StageStatusSuccess ELSE StageStatusFailure]

NextEngine ==
  \/ \E rollback \in BOOLEAN :
       SubmitDeployment(QuickSyncPipeline, SyncStrategyQuickSync, rollback)
  \/ /\ deployment.status = "NONE"
     /\ \E request \in PipelineRequests :
          SubmitDeployment(PipelineSyncPipeline(request),
                           SyncStrategyPipelineSync, request.Rollback)
  \/ StartDeployment
  \/ \E p \in DOMAIN deployment.stages : StartStage(p)
  \/ \E p \in DOMAIN deployment.stages : ReinvokeStage(p)
  \/ \E p \in DOMAIN deployment.stages,
        status \in {StageStatusSuccess, StageStatusFailure} :
       FinishStage(p, status)
  \/ CompleteDeployment

(***************************************************************************)
(* Specifications.                                                         *)
(***************************************************************************)
vars ==
  <<clientVars, toolVars, stageVars, planningVars, diffVars, engineVars>>

Init ==
  /\ InitRegistry /\ InitOpenTofu /\ InitInstall /\ InitStage
  /\ InitPlanning /\ InitDiff /\ InitEngine

\* The client registry alone.
Next == NextRegistry /\ UNCHANGED <<toolVars, stageVars, planningVars, diffVars, engineVars>>
Spec == Init /\ [][Next]_vars

\* The client registry with its scheduling: a goroutine inside Client that
\* can take its next step takes it, the Go scheduler leaves no runnable
\* goroutine behind for ever, and every newClient call returns.  No call
\* has to begin.
ClientStep(c) ==
  StepOf(c) /\ UNCHANGED <<toolVars, stageVars, planningVars, diffVars, engineVars>>
SpecLive == Spec /\ \A c \in Callers : WF_vars(ClientStep(c))

\* The tool registry, wrapper side, alone.
NextTool == NextOpenTofu /\ UNCHANGED <<installVars, stageVars, planningVars, diffVars, engineVars>>
SpecOpenTofu == Init /\ [][NextTool]_vars

\* The tool registry, installing side, alone.
NextInstallTool ==
  NextInstall /\ UNCHANGED <<clientVars, openTofuVars, stageVars, planningVars, diffVars, engineVars>>
SpecInstall == Init /\ [][NextInstallTool]_vars

\* Both registries: the client registry and the OpenTofu tool registry.
NextRegistries ==
  \/ NextRegistry /\ UNCHANGED <<toolVars, stageVars, planningVars, diffVars, engineVars>>
  \/ NextOpenTofu /\ UNCHANGED <<installVars, stageVars, planningVars, diffVars, engineVars>>
SpecRegistries == Init /\ [][NextRegistries]_vars

\* Stage execution alone.
NextStages == NextStage /\ UNCHANGED <<clientVars, toolVars, planningVars, diffVars, engineVars>>
SpecStage == Init /\ [][NextStages]_vars

\* The planning functions alone.
NextPlannings ==
  NextPlanning /\ UNCHANGED <<clientVars, toolVars, stageVars, diffVars, engineVars>>
SpecPlanning == Init /\ [][NextPlannings]_vars

\* The live state plugin alone.
NextDiffs ==
  NextDiff
    /\ UNCHANGED <<clientVars, toolVars, stageVars, planningVars, engineVars>>
SpecDiff == Init /\ [][NextDiffs]_vars

\* The stage execution engine alone.
NextEngines ==
  NextEngine
    /\ UNCHANGED <<clientVars, toolVars, stageVars, planningVars, diffVars>>
SpecEngine == Init /\ [][NextEngines]_vars

(***************************************************************************)
(* Claims about the platform client registry.                              *)
(***************************************************************************)

\* C1: concurrent Client calls for one provider name that all miss the
\* clients map share one newClient invocation and return the same client
\* instance.  (Stated for the calls that returned a client.)
C1_SingleConstruction ==
  \A c, d \in Callers :
    ( /\ Concurrent(c, d)
      /\ name[c] = name[d]
      /\ pc[c] = "done" /\ pc[d] = "done"
      /\ ~ ok[c] /\ ~ ok[d]
      /\ ret[c].err = Nil /\ ret[d].err = Nil )
    => /\ ret[c].client = ret[d].client
       /\ joined[c] = joined[d]
       /\ NewClientCalls(name[c]) = 1

\* C2: once clients[n] is set, no step replaces it by another instance and
\* no step invokes newClient for n again.
C2_Retained ==
  [][\A n \in Names :
       clients[n] # Nil =>
         /\ clients'[n] = clients[n]
         /\ \A c \in Callers :
              (name[c] = n /\ flight[c] = "none") => flight'[c] = "none"]_vars

\* C4: the map lock is held only around the read or the write of the
\* clients map, never while newClient runs or is waited for; a call that
\* cannot proceed waits either for the in-flight construction of its own
\* name or for a lock holder that is inside its map access; and readers
\* never exclude one another.
C4_LockOnlyAroundMap ==
  /\ \A c \in Callers :
       /\ c \in mu.readers => pc[c] = "RUnlock"
       /\ mu.writer = c => pc[c] = "write"
       /\ mu.pending = c => pc[c] = "LockWait"
  /\ \A c \in Callers :
       Blocked(c) =>
         \/ /\ pc[c] = "wait"
            /\ name[joined[c]] = name[c]
            /\ pc[joined[c]] = "newClient"
         \/ /\ pc[c] \in {"RLock", "Lock"}
            /\ \E d \in Callers \ {c} : pc[d] \in {"LockWait", "write"}
         \/ /\ pc[c] = "LockWait"
            /\ \E d \in Callers \ {c} : pc[d] = "RUnlock"
  /\ \A c \in Callers :
       (pc[c] = "RLock" /\ mu.writer = NoCaller /\ mu.pending = NoCaller)
         => ENABLED RLock(c)

\* C4 witness: while the construction for "a" is still running, one call
\* for "b" constructed and stored its client and another found it cached.
C4_Witness ==
  \E c, d, e \in Callers :
    /\ name[c] = "a" /\ pc[c] = "newClient"
    /\ name[d] = "b" /\ pc[d] = "done" /\ ~ ok[d] /\ clients["b"] = d
    /\ name[e] = "b" /\ pc[e] = "done" /\ ok[e] /\ ret[e].client = d

(***************************************************************************)
(* Claims about both registries.                                           *)
(***************************************************************************)

\* C3: a failed construction or installation gives its error to every
\* caller that waited on that attempt and leaves no cache entry, and the
\* next request for the key attempts it again.
\*  Client registry: a call whose singleflight call failed returned that
\*  call's error; every map entry is a successfully constructed client; a
\*  failed call is no longer in flight; a call returning an error writes no
\*  entry; and a call that reaches Do with nothing in flight runs newClient,
\*  whatever failed before.
\*  Tool registry: every OpenTofu call, also one after a failure, makes a
\*  request to the installer and returns the installer's answer as it is.
C3_NoNegativeCaching ==
  /\ [](\A c \in Callers :
          (pc[c] = "done" /\ joined[c] # NoCaller /\ flight[joined[c]] = "err")
            => ret[c] = [client |-> Nil, err |-> joined[c]])
  /\ [](\A n \in Names :
          /\ clients[n] # Nil => flight[clients[n]] = "ok"
          /\ newGroup[n] # NoCaller => flight[newGroup[n]] = "running")
  /\ [][\A c \in Callers :
          /\ (pc[c] # "done" /\ pc'[c] = "done" /\ ret'[c].err # Nil)
               => clients' = clients
          /\ (pc[c] = "Do" /\ pc'[c] # "Do" /\ newGroup[name[c]] = NoCaller)
               => (pc'[c] = "newClient" /\ flight'[c] = "running")]_vars
  /\ [](\A c \in Callers :
          openTofu[c] # NoCall =>
            /\ openTofu[c].request # NoRequest
            /\ openTofu[c].result \in InstallerResults(openTofu[c].request)
            /\ openTofu[c].ret = openTofu[c].result)

\* C3 witness: two calls for "a" got the error of one failed construction
\* and the map has no entry for "a"; and an OpenTofu call returned the
\* installer's error.
C3_Witness ==
  \E c, d, e \in Callers :
    /\ c # d
    /\ name[c] = "a" /\ name[d] = "a"
    /\ pc[c] = "done" /\ pc[d] = "done"
    /\ joined[c] # NoCaller /\ joined[c] = joined[d]
    /\ flight[joined[c]] = "err"
    /\ ret[c] = ret[d] /\ ret[c].err # Nil
    /\ clients["a"] = Nil
    /\ openTofu[e].ret.err # NoErr

(***************************************************************************)
(* Claims about the tool registry.                                         *)
(***************************************************************************)

\* C5: concurrent InstallTool calls for one version make exactly one
\* installation attempt and all return the same path or the same error.
\* (Stated for the calls that returned a path.)
C5_SingleInstallation ==
  \A t, u \in Installers :
    ( /\ ConcurrentInstalls(t, u)
      /\ tversion[t] = tversion[u]
      /\ tpc[t] = "done" /\ tpc[u] = "done"
      /\ tret[t].err = NoErr /\ tret[u].err = NoErr )
    => /\ tret[t] = tret[u]
       /\ Cardinality(InstallAttempts(tversion[t])) = 1

\* C6: once an InstallTool call for a version has succeeded, no later step
\* makes an installation attempt or installs a binary for that version.
C6_NoReinstall ==
  [][\A version \in Versions :
       (\E t \in Installers :
          tpc[t] = "done" /\ tversion[t] = version /\ tret[t].err = NoErr)
       => /\ InstallAttempts(version)' = InstallAttempts(version)
          /\ Installed(version)' = Installed(version)]_vars

\* C7: OpenTofu asks the installer for "tofu" with the given version, or
\* with "1.9.1" when the given version is empty; the installer never gets
\* an empty version; OpenTofu returns exactly what the installer returned.
C7_OpenTofuRequest ==
  \A c \in Callers :
    openTofu[c] # NoCall =>
      /\ openTofu[c].request.name = "tofu"
      /\ openTofu[c].version # "" => openTofu[c].request.version = openTofu[c].version
      /\ openTofu[c].version = "" => openTofu[c].request.version = "1.9.1"
      /\ openTofu[c].request.version # ""
      /\ openTofu[c].ret = openTofu[c].result

\* C7 witness: OpenTofu was called with an empty version, the installer was
\* asked for 1.9.1 and its path was returned; another call with version
\* 1.6.0 returned the installer's error.
C7_Witness ==
  \E c, d \in Callers :
    /\ openTofu[c].version = ""
    /\ openTofu[c].request = [name |-> "tofu", version |-> "1.9.1"]
    /\ openTofu[c].ret = [path |-> "/bin/true", err |-> NoErr]
    /\ openTofu[d].version = "1.6.0"
    /\ openTofu[d].request = [name |-> "tofu", version |-> "1.6.0"]
    /\ openTofu[d].ret.err # NoErr

(***************************************************************************)
(* Claims about stage execution.                                           *)
(***************************************************************************)
\* The errors of the checks executeStage makes on the directories and the
\* configuration file of the stage.
ConfigurationErrors ==
  {"failed to create plan file directory", "failed to read working directory",
   "configuration file does not exist", "error checking configuration file"}

\* C8: when the configuration file of the stage does not exist, the stage
\* call never acquires the tool and never runs a tofu command, and it
\* returns FAILURE with a configuration error; for every stage name.
C8_MissingConfigFailsFirst ==
  (st.pc # "idle" /\ st.config = "missing" /\ st.err # "failed to decode application spec") =>
    /\ st.tool = 0
    /\ st.commands = <<>>
    /\ st.pc = "returned" =>
         /\ st.status = StageStatusFailure
         /\ st.err \in ConfigurationErrors

\* C9: a stage call whose context was cancelled while a tofu command was
\* running returns FAILURE with a cancellation error.
C9_CancelFailsStage ==
  (st.pc = "returned" /\ st.cancelled \in {"init", "plan", "apply"}) =>
    /\ st.status = StageStatusFailure
    /\ st.err = "context canceled"

\* C10: when a crash followed the successful plan stage of a deployment,
\* the apply stage of that deployment applies the plan file that plan stage
\* wrote.
C10_ApplyRecoversPlan ==
  (/\ st.stageName = stageOpenTofuApply
   /\ st.applied # NoArtifact
   /\ st.deployment \in crashed) =>
    st.applied = planned[st.deployment]

\* C11: a plan stage called again for a deployment whose plan file is the
\* one its last successful plan stage wrote does not write the plan file
\* again.
C11_PlanNotRegenerated ==
  [][(/\ st.stageName = stageOpenTofuPlan
      /\ st.pc \notin {"idle", "returned"}
      /\ planned[st.deployment] # NoArtifact
      /\ planFile = planned[st.deployment])
       => planFile' = planFile]_vars

\* The plan record and the plan file an apply stage of deployment d needs:
\* the plan file, and in the variant that keeps metadata files the record
\* of d holding its path.
PlanPresent(d) ==
  /\ planFile # NoArtifact
  /\ impl = "tofu-plans" => metadata[d] = PlanFilePath(impl)

C13_RollbackStageAppended ==
  (planning.fn = "buildPipelineSyncStages" /\ planning.input.Rollback) =>
    LET in == planning.input.Stages
        out == planning.output.Stages
        n == Len(in)
    IN  /\ Len(out) = n + 1
        /\ \A i \in 1..n :
             /\ out[i].Index = in[i].Index
             /\ out[i].Name = in[i].Name
             /\ out[i].Rollback = FALSE
        /\ out[n + 1].Index = n
        /\ out[n + 1].Rollback = TRUE

\* C14: buildPipelineSyncStages maps the requested stages one to one and in
\* order: the i-th output stage has the i-th requested stage's index and
\* name, rollback=false, empty metadata and no manual operation; with
\* rollback disabled the output is as long as the request.
C14_OneToOne ==
  planning.fn = "buildPipelineSyncStages" =>
    LET in == planning.input.Stages
        out == planning.output.Stages
    IN  /\ planning.output.err = NoErr
        /\ \A i \in 1..Len(in) :
             /\ i \in DOMAIN out
             /\ out[i] = [Index |-> in[i].Index, Name |-> in[i].Name,
                          Rollback |-> FALSE, Metadata |-> {},
                          AvailableOperation |-> ManualOperationNone]
        /\ ~planning.input.Rollback => Len(out) = Len(in)

\* C14 witness: a request without rollback for two stages whose indexes are
\* not their positions got both back, in order.
C14_Witness ==
  /\ planning.fn = "buildPipelineSyncStages"
  /\ ~planning.input.Rollback
  /\ planning.input.Stages = << [Index |-> 1, Name |-> "S2"],
                                [Index |-> 2, Name |-> "S1"] >>
  /\ Len(planning.output.Stages) = 2
  /\ planning.output.Stages[1].Name = "S2"
  /\ planning.output.Stages[2].Index = 2

\* C15: in every pipeline buildPipelineSyncStages returns the indexes are
\* contiguous and strictly increasing in list order, and every rollback
\* stage comes after all forward stages.
C15_ContiguousIndexes ==
  planning.fn = "buildPipelineSyncStages" =>
    LET out == planning.output.Stages
    IN  /\ \A i \in 1..(Len(out) - 1) : out[i + 1].Index = out[i].Index + 1
        /\ \A i, j \in 1..Len(out) :
             (out[i].Rollback /\ ~out[j].Rollback) => j < i

\* C16: buildQuickSyncStages returns the fixed list OPEN_TOFU_PLAN,
\* OPEN_TOFU_APPLY, both with rollback=false and no manual operation,
\* whatever was called before.
C16_FixedQuickSyncStages ==
  planning.fn = "buildQuickSyncStages" =>
    LET out == planning.output.Stages
    IN  /\ planning.output.err = NoErr
        /\ Len(out) = 2
        /\ out[1].Name = "OPEN_TOFU_PLAN"
        /\ out[2].Name = "OPEN_TOFU_APPLY"
        /\ \A i \in 1..2 :
             /\ out[i].Rollback = FALSE
             /\ out[i].AvailableOperation = ManualOperationNone

\* C16 witness: buildQuickSyncStages was called and returned two stages.
C16_Witness ==
  /\ planning.fn = "buildQuickSyncStages"
  /\ Len(planning.output.Stages) = 2
  /\ planning.output.Stages[1].Metadata = {<<"command", "plan">>}

\* The elements of a sequence.
Range(seq) == {seq[i] : i \in DOMAIN seq}

C18_DetermineVersions ==
  /\ [](planning.fn = "determineVersions" =>
          LET src == planning.input
              out == planning.output
          IN  /\ out.err = NoErr
              /\ Len(out.Versions) = 1
              /\ src.CommitHash = "" => out.Versions[1].Version = "v1"
              /\ src.CommitHash = "abc123" =>
                   out.Versions[1].Version = "v1-abc123"
              /\ src.CommitHash # "" =>
                   out.Versions[1].Version = "v1-" \o src.CommitHash
              /\ out.Versions[1].Name = src.ApplicationDirectory
              /\ out.Versions[1].URL = src.ApplicationDirectory)
  /\ [][(/\ planning.fn = "determineVersions"
         /\ planning'.fn = "determineVersions"
         /\ planning'.input = planning.input)
          => planning'.output = planning.output]_vars

\* C18 witness: determineVersions for commit abc123 in /app gave v1-abc123.
C18_Witness ==
  /\ planning.fn = "determineVersions"
  /\ planning.input = [CommitHash |-> "abc123", ApplicationDirectory |-> "/app"]
  /\ planning.output.Versions[1].Version = "v1-abc123"
  /\ planning.output.Versions[1].Name = "/app"

\* C19: determineStrategy returns QUICK_SYNC with its summary and no error
\* for every deployment source, never PIPELINE_SYNC.
C19_QuickSyncStrategy ==
  planning.fn = "determineStrategy" =>
    /\ planning.output.Strategy = "QUICK_SYNC"
    /\ planning.output.Strategy # SyncStrategyPipelineSync
    /\ planning.output.Summary = "Using QUICK_SYNC strategy for OpenTofu deployment"
    /\ planning.output.err = NoErr

\* C19 witness: determineStrategy was called for a source with a commit
\* hash and answered QUICK_SYNC.
C19_Witness ==
  /\ planning.fn = "determineStrategy"
  /\ planning.input.CommitHash = "abc123"
  /\ planning.output.Strategy = SyncStrategyQuickSync

(***************************************************************************)
(* Claims about the live state plugin.                                     *)
(***************************************************************************)
\* The addresses of the resources of a state.
AddressesOf(list) == {list[i].Address : i \in DOMAIN list}

\* The number of entries of a change list with the given change.
Count(changes, change) ==
  Cardinality({i \in DOMAIN changes : changes[i].change = change})

\* C20: when the current and the desired state have no address in common,
\* the change list of GetDiff has as many delete entries as the current
\* state has resources, as many create entries as the desired state has
\* resources, and no update entry.
C20_DisjointStates ==
  (/\ (ls.fn = "GetDiff" /\ ls.result)
   /\ AddressesOf(ls.current) \cap AddressesOf(ls.desired) = {}) =>
    /\ Count(ls.changes, "delete") = Len(ls.current)
    /\ Count(ls.changes, "create") = Len(ls.desired)
    /\ Count(ls.changes, "update") = 0

\* C20 witness: GetDiff returned three changes for a current state of two
\* resources and a desired state of one resource with another address.
C20_Witness ==
  /\ ls.pc = "returned"
  /\ (ls.fn = "GetDiff" /\ ls.result)
  /\ Len(ls.current) = 2
  /\ Len(ls.desired) = 1
  /\ AddressesOf(ls.current) = {"r1", "r2"}
  /\ AddressesOf(ls.desired) = {"r3"}
  /\ Len(ls.changes) = 3

\* C21: when the current and the desired state hold the same resources,
\* the same addresses each with the same attribute map, whatever the order
\* of the keys in the two outputs and the order of the resources, the
\* change list of GetDiff is empty.
C21_IdenticalStates ==
  LET Pairs(object) == {object[k] : k \in DOMAIN object}
      Content(output) ==
        {<<output[i].Address, Pairs(output[i].Values)>> : i \in DOMAIN output}
  IN  (/\ ls.fn = "GetDiff" /\ ls.result
       /\ Content(ls.currentState) = Content(ls.desiredState))
        => ls.changes = <<>>

\* C21 witness: GetDiff returned no change for two outputs that list the
\* same two resources in opposite orders, one of them with its keys in
\* opposite orders.
C21_Witness ==
  /\ ls.pc = "returned"
  /\ (ls.fn = "GetDiff" /\ ls.result)
  /\ ls.currentState =
       << [Address |-> "r1",
           Values |-> << <<"size", "1">>, <<"zone", "a">> >>],
          [Address |-> "r2",
           Values |-> << <<"size", "2">>, <<"zone", "a">> >>] >>
  /\ ls.desiredState =
       << [Address |-> "r2",
           Values |-> << <<"size", "2">>, <<"zone", "a">> >>],
          [Address |-> "r1",
           Values |-> << <<"zone", "a">>, <<"size", "1">> >>] >>
  /\ ls.changes = <<>>

\* C22: when tofu show and tofu plan print the same state, the change list
\* of GetDiff is empty.
C22_SameState ==
  (/\ ls.fn = "GetDiff" /\ ls.result
   /\ ls.desiredState = ls.currentState) => Len(ls.changes) = 0

\* C22 witness: GetDiff returned no change for two equal outputs of two
\* resources.
C22_Witness ==
  /\ ls.pc = "returned"
  /\ (ls.fn = "GetDiff" /\ ls.result)
  /\ Len(ls.currentState) = 2
  /\ ls.desiredState = ls.currentState
  /\ ls.changes = <<>>

\* C23: the change list has exactly one entry, a create entry with the
\* resource, for every desired resource whose address the current state
\* does not have; exactly one entry, an update entry with the current and
\* the desired attribute map, for every desired resource whose address the
\* current state has with another attribute map; exactly one entry, a
\* delete entry with the resource, for every current resource whose
\* address the desired state does not have; and no entry for any other
\* resource or address.
C23_Classification ==
  LET EntriesFor(changes, address) ==
        {k \in DOMAIN changes : changes[k].address = address}
  IN
  (ls.fn = "GetDiff" /\ ls.result) =>
    /\ \A i \in DOMAIN ls.desired :
         LET d == ls.desired[i]
             found == {j \in DOMAIN ls.current :
                         ls.current[j].Address = d.Address}
             entries == EntriesFor(ls.changes, d.Address)
         IN  /\ found = {} =>
                  \E k \in entries :
                    /\ entries = {k}
                    /\ ls.changes[k].change = "create"
                    /\ ls.changes[k].resource = d
             /\ \A j \in found :
                  IF ls.current[j].Values # d.Values
                    THEN \E k \in entries :
                           /\ entries = {k}
                           /\ ls.changes[k].change = "update"
                           /\ ls.changes[k].current = ls.current[j].Values
                           /\ ls.changes[k].desired = d.Values
                    ELSE entries = {}
    /\ \A j \in DOMAIN ls.current :
         LET c == ls.current[j]
             entries == EntriesFor(ls.changes, c.Address)
         IN  c.Address \notin AddressesOf(ls.desired) =>
               \E k \in entries :
                 /\ entries = {k}
                 /\ ls.changes[k].change = "delete"
                 /\ ls.changes[k].resource = c
    /\ \A k \in DOMAIN ls.changes :
         ls.changes[k].address
           \in AddressesOf(ls.current) \cup AddressesOf(ls.desired)

\* C23 witness: GetDiff returned an update entry with both attribute maps.
C23_Witness ==
  /\ ls.pc = "returned"
  /\ (ls.fn = "GetDiff" /\ ls.result)
  /\ \E k \in DOMAIN ls.changes :
       /\ ls.changes[k].change = "update"
       /\ ls.changes[k].current = {<<"size", "1">>, <<"zone", "a">>}
       /\ ls.changes[k].desired = {<<"size", "2">>, <<"zone", "a">>}
  /\ \E k \in DOMAIN ls.changes : ls.changes[k].change = "create"
  /\ \E k \in DOMAIN ls.changes : ls.changes[k].change = "delete"

\* C24: in the change list the create and update entries come first, in
\* the order of their resources in the desired state, and the delete
\* entries after them, in the order of their resources in the current
\* state; no delete entry comes before a create or an update entry.
C24_Order ==
  LET Position(list, address) ==
        CHOOSE i \in DOMAIN list : list[i].Address = address
  IN
  (ls.fn = "GetDiff" /\ ls.result) =>
    \A i, j \in DOMAIN ls.changes :
      i < j =>
        LET a == ls.changes[i]
            b == ls.changes[j]
        IN  /\ ~(a.change = "delete" /\ b.change # "delete")
            /\ (a.change # "delete" /\ b.change # "delete") =>
                 Position(ls.desired, a.address)
                   < Position(ls.desired, b.address)
            /\ (a.change = "delete" /\ b.change = "delete") =>
                 Position(ls.current, a.address)
                   < Position(ls.current, b.address)

\* C24 witness: GetDiff returned a create entry for the first desired
\* resource, an update entry for the second and then a delete entry.
C24_Witness ==
  /\ ls.pc = "returned"
  /\ (ls.fn = "GetDiff" /\ ls.result)
  /\ Len(ls.changes) = 3
  /\ ls.changes[1].change = "create"
  /\ ls.changes[1].address = ls.desired[1].Address
  /\ ls.changes[2].change = "update"
  /\ ls.changes[3].change = "delete"

\* C25: the result of GetDiff carries, beside the change list, a sync
\* verdict that is in-sync when the change list is empty and out-of-sync
\* otherwise.
C25_SyncVerdict ==
  (ls.fn = "GetDiff" /\ ls.result) =>
    \E verdict \in ((DOMAIN ls.response) \cup (DOMAIN ls.response.Diff))
                     \ {"Diff", "changes"} :
      ls.response.Diff[verdict] =
        IF ls.changes = <<>> THEN "in-sync" ELSE "out-of-sync"

C27_Sequential ==
  LET stages == deployment.stages
      statuses == deployment.statuses
  IN  /\ Cardinality({p \in DOMAIN stages : statuses[p] = "RUNNING"}) <= 1
      /\ \A p, q \in DOMAIN stages :
           (/\ statuses[p] # "PENDING"
            /\ ~stages[q].Rollback
            /\ stages[q].Index < stages[p].Index)
             => statuses[q] = StageStatusSuccess
      /\ deployment.strategy = SyncStrategyQuickSync =>
           \A p \in DOMAIN stages :
             (stages[p].Name = stageOpenTofuApply /\ statuses[p] # "PENDING")
               => \E q \in DOMAIN stages :
                    /\ stages[q].Name = stageOpenTofuPlan
                    /\ statuses[q] = StageStatusSuccess

\* C27 witness: in a quick sync deployment OPEN_TOFU_APPLY is RUNNING after
\* OPEN_TOFU_PLAN reached SUCCESS.
C27_Witness ==
  /\ deployment.strategy = SyncStrategyQuickSync
  /\ deployment.started = <<1, 2>>
  /\ deployment.stages[2].Name = stageOpenTofuApply
  /\ deployment.statuses = <<StageStatusSuccess, "RUNNING">>

\* C28: a stage status SUCCESS or FAILURE is never changed by a later step,
\* also not when ExecuteStage was called again for the stage, and a
\* deployment with a terminal status never changes again.
C28_StatusMonotone ==
  [][/\ \A p \in DOMAIN deployment.stages :
          deployment.statuses[p] \in {StageStatusSuccess, StageStatusFailure}
            => /\ p \in DOMAIN deployment'.statuses
               /\ deployment'.statuses[p] = deployment.statuses[p]
     /\ deployment.status \in {StageStatusSuccess, StageStatusFailure}
          => deployment' = deployment]_vars

\* C28 witness: a deployment ended FAILURE with a stage that was invoked
\* twice at FAILURE and the stage after it still PENDING.
C28_Witness ==
  /\ deployment.status = StageStatusFailure
  /\ deployment.reinvoked = {1}
  /\ deployment.statuses = <<StageStatusFailure, "PENDING">>

(***************************************************************************)
(* Claims about the errors of stage execution.                             *)
(***************************************************************************)
\* C29: once a step of executeStage has met an error, the call goes no
\* further: it has returned, with FAILURE and an error that is not nil.
C29_NoErrorSwallowed ==
  st.reported # NoErr =>
    /\ st.pc = "returned"
    /\ st.status = StageStatusFailure
    /\ st.err # NoErr

\* C30: a stage call with a stage name that fetchDefinedStages does not
\* list never acquires the tool and never runs a tofu command, init
\* included, and every such call that returned from executeStage returned
\* FAILURE with an error.
C30_UnknownStageFailsFirst ==
  (/\ st.pc # "idle"
   /\ st.stageName \notin Range(fetchDefinedStages)
   /\ st.err # "failed to decode application spec") =>
    /\ st.tool = 0
    /\ st.commands = <<>>
    /\ st.pc = "returned" =>
         /\ st.status = StageStatusFailure
         /\ st.err # NoErr

(***************************************************************************)
(* Claims about the steps of the livestate plugin.                         *)
(***************************************************************************)
\* C31: when the show or plan command of GetLiveState, GetDesiredState or
\* GetDiff ran successfully and its output is not well-formed state JSON,
\* the call returns no result and an error whose message ends with "invalid
\* state format"; when the command itself failed, the message is one of the
\* "failed to get ..." messages, which is a different one.
C31_InvalidStateFormat ==
  LET Last(q) == q[Len(q)]
      StateFormat(err) ==
        \E prefix \in {"", "invalid current state: ",
                        "invalid desired state: "} :
          err = prefix \o "invalid state format"
      FailedToGet ==
        {"failed to get OpenTofu state", "failed to get OpenTofu plan",
         "failed to get current state", "failed to get desired state"}
  IN  (/\ ls.pc = "returned"
       /\ ls.steps # <<>>
       /\ Last(ls.steps) \in {"show", "plan"}) =>
        /\ Last(ls.outcomes) = "invalid" =>
             /\ StateFormat(ls.err)
             /\ ls.err \notin FailedToGet
             /\ ~ls.result
             /\ ls.state = <<>>
             /\ ls.response = NoDiff.response
        /\ Last(ls.outcomes) = "err" =>
             /\ ls.err \in FailedToGet
             /\ ~StateFormat(ls.err)
             /\ ~ls.result

\* GetLiveState returned after show printed an output that is not a state.
C31_Witness ==
  /\ ls.fn = "GetLiveState"
  /\ ls.pc = "returned"
  /\ ls.steps = <<"validateConfig", "InstallTool", "MkdirAll", "init", "show">>
  /\ ls.outcomes = <<"ok", "ok", "ok", "ok", "invalid">>
  /\ ls.err = "invalid state format"

\* C32: every call of GetLiveState, GetDesiredState and GetDiff executes a
\* prefix of its fixed order of steps, each step once, and no step after a
\* step that failed; with no git path or no configuration directory the
\* tool is never acquired and the call returns an error after
\* validateConfig; a failing init is the last step, and the call returns
\* no result and the error "failed to initialize OpenTofu".
C32_FixedOrder ==
  LET Order ==
        <<"validateConfig", "InstallTool", "MkdirAll", "init">> \o
          (CASE ls.fn = "GetLiveState" -> <<"show">>
             [] ls.fn = "GetDesiredState" -> <<"plan">>
             [] OTHER -> <<"show", "plan">>)
      n == Len(ls.steps)
  IN  ls.fn # "-" =>
        /\ n <= Len(Order)
        /\ ls.steps = SubSeq(Order, 1, n)
        /\ Len(ls.outcomes) = n
        /\ \A i \in 1..n : ls.outcomes[i] # "ok" =>
             /\ i = n
             /\ ls.pc = "returned"
             /\ ls.err # NoErr
             /\ ~ls.result
        /\ ls.result => (ls.pc = "returned" /\ ls.steps = Order)
        /\ (ls.app.gitPath = "" \/ ~ls.app.dirExists) =>
             /\ "InstallTool" \notin Range(ls.steps)
             /\ ls.pc = "returned" =>
                  (ls.steps = <<"validateConfig">> /\ ls.err # NoErr)
        /\ \A i \in 1..n :
             (ls.steps[i] = "init" /\ ls.outcomes[i] = "err") =>
               /\ ls.err = "failed to initialize OpenTofu"
               /\ ~ls.result
               /\ ls.state = <<>>

\* GetDiff returned after a failing init, with neither show nor plan run.
C32_Witness ==
  /\ ls.fn = "GetDiff"
  /\ ls.pc = "returned"
  /\ ls.steps = <<"validateConfig", "InstallTool", "MkdirAll", "init">>
  /\ ls.outcomes = <<"ok", "ok", "ok", "err">>
  /\ ls.err = "failed to initialize OpenTofu"

(***************************************************************************)
(* Claims about the steps and the outcomes of stage execution.             *)
(***************************************************************************)
\* C33: when toolRegistry.OpenTofu fails, executeStage returns at once: the
\* registry has been called exactly once in the invocation, the status is
\* FAILURE, the error is "failed to get OpenTofu binary", and no tofu
\* command has been executed.
C33_AcquisitionFailure ==
  [][/\ (st.pc = "OpenTofu" /\ st'.pc = "returned") =>
          st'.err = "failed to get OpenTofu binary"
     /\ st'.err = "failed to get OpenTofu binary" =>
          /\ st'.pc = "returned"
          /\ st'.status = StageStatusFailure
          /\ st'.tool = 1
          /\ st'.commands = <<>>
          /\ st'.running = "-"]_vars

\* A stage call returned because the tool could not be acquired.
C33_Witness ==
  /\ st.pc = "returned"
  /\ st.err = "failed to get OpenTofu binary"
  /\ st.status = StageStatusFailure
  /\ st.tool = 1

\* C34: the first tofu command of every stage call is init and the second,
\* if there is one, is the plan or apply of the stage, started only after
\* init succeeded; a call whose init failed returns FAILURE with init as
\* its only command; the plan file metadata of a deployment is written
\* only by a call whose plan command succeeded and wrote the plan file.
C34_InitFirst ==
  /\ [](/\ st.commands \in {<<>>, <<"init">>, <<"init", "plan">>,
                            <<"init", "apply">>}
        /\ Len(st.commands) = 2 =>
             st.commands[2] = (IF st.stageName = stageOpenTofuPlan
                                 THEN "plan" ELSE "apply")
        /\ st.err = "failed to execute OpenTofu init" =>
             /\ st.pc = "returned"
             /\ st.status = StageStatusFailure
             /\ st.commands = <<"init">>)
  /\ [][/\ (st.pc = "CombinedOutput" /\ st.running = "init"
              /\ st'.pc = "returned") =>
             st'.err = "failed to execute OpenTofu init"
        /\ Len(st'.commands) > Len(st.commands) =>
             st.pc = (IF st.commands = <<>> THEN "init" ELSE "run")
        /\ (st'.pc = "run" /\ st.pc # "run") =>
             st.pc \in {"switch", "StatPlan"}
        /\ (st'.pc = "switch" /\ st.pc # "switch") =>
             (st.pc = "CombinedOutput" /\ st.running = "init")
        /\ metadata' # metadata =>
             /\ st.pc = "savePlanFileMetadata"
             /\ st.commands = <<"init", "plan">>
             /\ st.err = NoErr
             /\ planFile = invocations]_vars

\* A plan stage returned SUCCESS after init and plan, its metadata saved.
C34_Witness ==
  /\ st.pc = "returned"
  /\ st.status = StageStatusSuccess
  /\ st.commands = <<"init", "plan">>
  /\ metadata[st.deployment] = PlanFilePath(impl)
  /\ planned[st.deployment] = invocations

\* C35: a call of ExecuteStage that returned gave its caller either a
\* response with status SUCCESS and a nil error, or no response and an
\* error that is not nil, and never a response with status FAILURE; a call
\* whose StageConfig could not be decoded returned an error and executed
\* no step of executeStage.
C35_TwoOutcomes ==
  /\ st.response # StageStatusFailure
  /\ st.pc = "returned" =>
       \/ (st.response = StageStatusSuccess /\ st.err = NoErr)
       \/ (st.response = "nil" /\ st.err # NoErr)
  /\ st.err = "failed to decode application spec" =>
       /\ st.pc = "returned"
       /\ st.response = "nil"
       /\ st.status = "-"
       /\ st.tool = 0
       /\ st.commands = <<>>
       /\ st.reported = NoErr

\* executeStage returned FAILURE and ExecuteStage returned no response.
C35_Witness ==
  /\ st.pc = "returned"
  /\ st.status = StageStatusFailure
  /\ st.err = "failed to execute stage"
  /\ st.response = "nil"

\* C36: the plan file an apply stage of a deployment applies is the one the
\* last successful plan stage of that same deployment wrote, whatever the
\* stage calls of another deployment of the application did in between.
C36_PlanIsolation ==
  st.applied # NoArtifact =>
    /\ planned[st.deployment] # NoArtifact
    /\ st.applied = planned[st.deployment]

\* C37: every return of executeStage has status SUCCESS or FAILURE, and
\* the status is SUCCESS exactly when the error is nil.
C37_StatusMatchesError ==
  (st.pc = "returned" /\ st.err # "failed to decode application spec") =>
    /\ st.status \in {StageStatusSuccess, StageStatusFailure}
    /\ st.status = StageStatusSuccess <=> st.err = NoErr
    /\ st.err # NoErr => st.status = StageStatusFailure

\* executeStage returned FAILURE for a stage name that is not defined.
C37_Witness ==
  /\ st.pc = "returned"
  /\ st.stageName \notin {stageOpenTofuPlan, stageOpenTofuApply}
  /\ st.err = "unknown stage"
  /\ st.status = StageStatusFailure

(***************************************************************************)
(* Claims about the progress of the client registry.                       *)
(***************************************************************************)
\* C38: whatever Client calls have begun and whoever holds or waits for the
\* lock of the registry, a state follows in which every call that began
\* has returned and the lock is free: no reader, no writer and no writer
\* waiting.
C38_DeadlockFree ==
  []<>(/\ \A c \in Callers : pc[c] \in {"idle", "done"}
       /\ mu = [readers |-> {}, writer |-> NoCaller, pending |-> NoCaller])

\* Three calls for the same name returned: two ran newClient and stored
\* their client, the third waited for the call of another.
C38_Witness ==
  /\ \A c \in Callers : pc[c] = "done" /\ name[c] = "a"
  /\ \E c, d \in Callers :
       /\ Concurrent(c, d)
       /\ joined[d] = c /\ d # c
  /\ NewClientCalls("a") = 2

(***************************************************************************)
(* Claims about the reconciler under exchange of its two states.           *)
(***************************************************************************)
\* The addresses of the entries of one kind in a change list.
AddressesChanged(changes, kind) ==
  {changes[i].address : i \in {k \in DOMAIN changes : changes[k].change = kind}}

\* C39: for a current and a desired state with unique addresses, the
\* addresses GetDiff marks create are the ones the comparison of the same
\* two states exchanged marks delete, the ones it marks delete are the
\* ones the exchanged comparison marks create, and both mark the same
\* addresses update.
C39_SwapSymmetric ==
  (ls.fn = "GetDiff" /\ ls.result) =>
    LET swapped == Changes(ls.desired, ls.current)
    IN  /\ AddressesChanged(ls.changes, "create") =
             AddressesChanged(swapped, "delete")
        /\ AddressesChanged(ls.changes, "delete") =
             AddressesChanged(swapped, "create")
        /\ AddressesChanged(ls.changes, "update") =
             AddressesChanged(swapped, "update")

\* GetDiff returned a change list with a create, a delete and an update.
C39_Witness ==
  /\ ls.fn = "GetDiff"
  /\ ls.pc = "returned"
  /\ ls.result
  /\ AddressesChanged(ls.changes, "create") = {"r3"}
  /\ AddressesChanged(ls.changes, "delete") = {"r1"}
  /\ AddressesChanged(ls.changes, "update") = {"r2"}

\* C40: for a current and a desired state with unique addresses, the
\* change list of GetDiff has at most one entry for an address, no address
\* is marked both create and delete, and the list has at most as many
\* entries as the two states have resources together.
C40_OneEntryPerAddress ==
  (ls.fn = "GetDiff" /\ ls.result) =>
    /\ \A i, k \in DOMAIN ls.changes :
         ls.changes[i].address = ls.changes[k].address => i = k
    /\ AddressesChanged(ls.changes, "create")
         \cap AddressesChanged(ls.changes, "delete") = {}
    /\ Len(ls.changes) <= Len(ls.current) + Len(ls.desired)

\* GetDiff returned as many entries as the two states have resources.
C40_Witness ==
  /\ ls.fn = "GetDiff"
  /\ ls.pc = "returned"
  /\ ls.result
  /\ Len(ls.current) = 1
  /\ Len(ls.desired) = 2
  /\ Len(ls.changes) = Len(ls.current) + Len(ls.desired)

=============================================================================
